---------------------------- MODULE Spec2Model ----------------------------
(***************************************************************************)
(* A model of graphs.py: the classes Graph, UndirectedGraph and            *)
(* DirectedGraph.  The adjacency mapping self._graph is a                  *)
(* defaultdict(list); a Python dict keeps its keys in insertion order, so  *)
(* it is modelled as a sequence of entries [key, val] with distinct keys,  *)
(* val being the adjacency list of key.                                    *)
(***************************************************************************)
EXTENDS Integers, Sequences, FiniteSets, TLC

VARIABLES kind, graph, pre, op, args, outcome, ret

vars == <<kind, graph, pre, op, args, outcome, ret>>

(* Bounds of the model. *)
MaxInitEdges == 1
MaxEntries == 3

Nodes == {"a", "b", "c"}
Kinds == {"undirected", "directed"}
Edges == Nodes \X Nodes

RECURSIVE EdgeLists(_)
EdgeLists(n) ==
    IF n = 0 THEN {<<>>}
    ELSE LET shorter == EdgeLists(n - 1)
         IN  shorter \cup {Append(l, e) : l \in {s \in shorter : Len(s) = n - 1}, e \in Edges}

(***************************************************************************)
(* The dict self._graph.                                                   *)
(***************************************************************************)
EmptyGraph == <<>>

InList(x, s) == \E i \in DOMAIN s : s[i] = x

Count(s, x) == Cardinality({i \in DOMAIN s : s[i] = x})

(* list(self._graph): the keys in insertion order *)
nodes(g) == [i \in DOMAIN g |-> g[i].key]

(* len(self._graph) *)
len(g) == Len(g)

(* node in self._graph: no entry is created *)
Has(g, n) == \E i \in DOMAIN g : g[i].key = n

Idx(g, n) == CHOOSE i \in DOMAIN g : g[i].key = n

(* the value stored under an existing key *)
Get(g, n) == g[Idx(g, n)].val

(* self._graph.values() *)
Values(g) == [i \in DOMAIN g |-> g[i].val]

(* defaultdict.__getitem__: an absent key is inserted, last, with list() *)
Vivify(g, n) == IF Has(g, n) THEN g ELSE Append(g, [key |-> n, val |-> <<>>])

(* self._graph[n].append(m) *)
AppendTo(g, n, m) ==
    LET h == Vivify(g, n)
    IN  [h EXCEPT ![Idx(h, n)].val = Append(@, m)]

(* the edge pairs, in mapping-then-list order *)
RECURSIVE edges(_)
edges(g) ==
    IF g = <<>> THEN <<>>
    ELSE LET last == g[Len(g)]
         IN  edges(SubSeq(g, 1, Len(g) - 1))
               \o [i \in DOMAIN last.val |-> <<last.key, last.val[i]>>]

(***************************************************************************)
(* Graph.add_node                                                          *)
(***************************************************************************)
add_node(g, node) == Vivify(g, node)

(***************************************************************************)
(* UndirectedGraph.add_edge.  edge = set(edge); node1 = edge.pop() takes   *)
(* an arbitrary element of the set: node1 is the element popped first.     *)
(***************************************************************************)
UndirectedAddEdgeOneWay(g, edge, node1) ==
    LET rest == {edge[1], edge[2]} \ {node1}
    IN  IF rest # {}
        THEN LET node2 == CHOOSE x \in rest : TRUE
             IN  AppendTo(Vivify(g, node2), node1, node2)
        ELSE AppendTo(g, node1, node1)

UndirectedAddEdgeLoopTwice(g, edge, node1) ==
    LET rest == {edge[1], edge[2]} \ {node1}
    IN  IF rest # {}
        THEN LET node2 == CHOOSE x \in rest : TRUE
             IN  AppendTo(AppendTo(g, node1, node2), node2, node1)
        ELSE AppendTo(AppendTo(g, node1, node1), node1, node1)

UndirectedAddEdge(g, edge, node1) ==
    LET rest == {edge[1], edge[2]} \ {node1}
    IN  IF rest # {}
        THEN LET node2 == CHOOSE x \in rest : TRUE
             IN  AppendTo(AppendTo(g, node1, node2), node2, node1)
        ELSE AppendTo(g, node1, node1)

(***************************************************************************)
(* DirectedGraph.add_edge                                                  *)
(***************************************************************************)
DirectedAddEdgeNoRegister(g, edge) == AppendTo(g, edge[1], edge[2])

DirectedAddEdgeBothWays(g, edge) ==
    AppendTo(AppendTo(add_node(g, edge[2]), edge[1], edge[2]), edge[2], edge[1])

DirectedAddEdge(g, edge) == AppendTo(add_node(g, edge[2]), edge[1], edge[2])

(* self.add_edge(edge): the graphs one call can produce *)
AddEdgeResults(k, g, edge) ==
    IF k = "undirected"
    THEN {UndirectedAddEdge(g, edge, node1) : node1 \in {edge[1], edge[2]}}
    ELSE {DirectedAddEdge(g, edge)}

(***************************************************************************)
(* Graph.__init__: the graphs construction from an edge list can produce   *)
(***************************************************************************)
RECURSIVE Construct(_, _)
Construct(k, es) ==
    IF es = <<>> THEN {EmptyGraph}
    ELSE UNION {AddEdgeResults(k, g, es[Len(es)]) :
                  g \in Construct(k, SubSeq(es, 1, Len(es) - 1))}

(***************************************************************************)
(* Graph.isolated_nodes                                                    *)
(***************************************************************************)
isolated_nodes(g) ==
    LET Isolated(node) ==
            /\ Len(Get(g, node)) = 0
            /\ \A i \in DOMAIN g : ~InList(node, Values(g)[i])
    IN  SelectSeq(nodes(g), Isolated)

(***************************************************************************)
(* Graph.is_connected                                                      *)
(***************************************************************************)
is_connected(g) == Len(isolated_nodes(g)) = 0

(***************************************************************************)
(* Results of a call: outcome is "value" (ret is the value returned),      *)
(* "None" (the call returned None) or "ValueError" (min() or max() of an   *)
(* empty iterable raised).                                                 *)
(***************************************************************************)
Value(v) == [outcome |-> "value", ret |-> v]
ReturnsNone == [outcome |-> "None", ret |-> <<>>]
RaisesValueError == [outcome |-> "ValueError", ret |-> <<>>]

Min(S) == CHOOSE x \in S : \A y \in S : x <= y
Max(S) == CHOOSE x \in S : \A y \in S : x >= y

(***************************************************************************)
(* Graph.depth_first_search(start_node, end_node, path)                    *)
(***************************************************************************)
RECURSIVE depth_first_search_backtracking(_, _, _, _)
depth_first_search_backtracking(g, start_node, end_node, path) ==
    LET p == Append(path, start_node)
    IN  IF start_node = end_node THEN Value(p)
        ELSE IF ~Has(g, start_node) THEN ReturnsNone
        ELSE LET adj == Get(g, start_node)
                 found == {i \in DOMAIN adj :
                             /\ ~InList(adj[i], p)
                             /\ depth_first_search_backtracking(
                                    g, adj[i], end_node, p).outcome = "value"}
             IN  IF found = {} THEN ReturnsNone
                 ELSE depth_first_search_backtracking(g, adj[Min(found)], end_node, p)

RECURSIVE depth_first_search(_, _, _, _)
depth_first_search(g, start_node, end_node, path) ==
    LET p == Append(path, start_node)
    IN  IF start_node = end_node THEN Value(p)
        ELSE IF ~Has(g, start_node) THEN ReturnsNone
        ELSE LET adj == Get(g, start_node)
                 fresh == {i \in DOMAIN adj : ~InList(adj[i], p)}
             IN  IF fresh = {} THEN ReturnsNone
                 ELSE depth_first_search(g, adj[Min(fresh)], end_node, p)

(***************************************************************************)
(* Graph.node_degree: both reads of self._graph[node] go through the       *)
(* defaultdict, so an absent node is registered.                           *)
(***************************************************************************)
node_degree_no_register(g, node) ==
    [graph |-> g,
     ret |-> IF Has(g, node) THEN Len(Get(g, node)) + Count(Get(g, node), node) ELSE 0]

node_degree(g, node) ==
    LET h == Vivify(g, node)
    IN  [graph |-> h, ret |-> Len(Get(h, node)) + Count(Get(h, node), node)]

(***************************************************************************)
(* Graph.delta (min_degree) and Graph.Delta (max_degree)                   *)
(***************************************************************************)
(* map(self.node_degree, self._graph): node_degree called on each key in    *)
(* turn, each call working on the dict the previous one left               *)
RECURSIVE MapNodeDegree(_, _)
MapNodeDegree(g, ks) ==
    IF ks = <<>> THEN [graph |-> g, rets |-> <<>>]
    ELSE LET r == node_degree(g, Head(ks))
             rest == MapNodeDegree(r.graph, Tail(ks))
         IN  [graph |-> rest.graph, rets |-> <<r.ret>> \o rest.rets]

Range(s) == {s[i] : i \in DOMAIN s}

delta(g) ==
    LET m == MapNodeDegree(g, nodes(g))
    IN  IF m.rets = <<>>
        THEN [graph |-> m.graph, outcome |-> "ValueError", ret |-> <<>>]
        ELSE [graph |-> m.graph, outcome |-> "value", ret |-> Min(Range(m.rets))]

Delta_zero_when_empty(g) ==
    LET m == MapNodeDegree(g, nodes(g))
    IN  IF m.rets = <<>>
        THEN [graph |-> m.graph, outcome |-> "value", ret |-> 0]
        ELSE [graph |-> m.graph, outcome |-> "value", ret |-> Max(Range(m.rets))]

Delta(g) ==
    LET m == MapNodeDegree(g, nodes(g))
    IN  IF m.rets = <<>>
        THEN [graph |-> m.graph, outcome |-> "ValueError", ret |-> <<>>]
        ELSE [graph |-> m.graph, outcome |-> "value", ret |-> Max(Range(m.rets))]

(***************************************************************************)
(* Graph.distance                                                          *)
(***************************************************************************)
distance(g, start_node, end_node) ==
    LET dist == depth_first_search(g, start_node, end_node, <<>>)
    IN  IF dist.outcome = "None" THEN -1 ELSE Len(dist.ret) - 1

(***************************************************************************)
(* Graph.diameter: combinations(self._graph, 2) yields the pairs of keys   *)
(* (k[i], k[j]) with i < j in the order ks of the keys.                    *)
(***************************************************************************)
Combinations2(ks) ==
    {<<ks[c[1]], ks[c[2]]>> : c \in {d \in (DOMAIN ks) \X (DOMAIN ks) : d[1] < d[2]}}

DiameterOver(g, ks) ==
    LET ds == {distance(g, c[1], c[2]) : c \in Combinations2(ks)}
    IN  IF ds = {} THEN RaisesValueError ELSE Value(Max(ds))

diameter(g) == DiameterOver(g, nodes(g))

(***************************************************************************)
(* The state: kind is the class of the object, graph its self._graph, and  *)
(* op, args, outcome, ret record the last call with its result; pre is     *)
(* self._graph as it was when that call began.                             *)
(***************************************************************************)
Returned(r) == outcome' = r.outcome /\ ret' = r.ret

Init ==
    /\ kind \in Kinds
    /\ \E es \in EdgeLists(MaxInitEdges) :
          /\ graph \in Construct(kind, es)
          /\ args = es
    /\ pre = EmptyGraph
    /\ op = "__init__"
    /\ outcome = "None"
    /\ ret = <<>>

CallUndirectedAddEdge ==
    /\ kind = "undirected"
    /\ Len(edges(graph)) < MaxEntries
    /\ \E edge \in Edges : \E node1 \in {edge[1], edge[2]} :
          /\ graph' = UndirectedAddEdge(graph, edge, node1)
          /\ args' = edge
    /\ op' = "add_edge"
    /\ Returned(ReturnsNone)
    /\ pre' = graph
    /\ UNCHANGED kind

CallDirectedAddEdge ==
    /\ kind = "directed"
    /\ Len(edges(graph)) < MaxEntries
    /\ \E edge \in Edges :
          /\ graph' = DirectedAddEdge(graph, edge)
          /\ args' = edge
    /\ op' = "add_edge"
    /\ Returned(ReturnsNone)
    /\ pre' = graph
    /\ UNCHANGED kind

CallAddNode ==
    /\ \E node \in Nodes :
          /\ graph' = add_node(graph, node)
          /\ args' = <<node>>
    /\ op' = "add_node"
    /\ Returned(ReturnsNone)
    /\ pre' = graph
    /\ UNCHANGED kind

CallNodeDegree ==
    /\ \E node \in Nodes :
          /\ graph' = node_degree(graph, node).graph
          /\ Returned(Value(node_degree(graph, node).ret))
          /\ args' = <<node>>
    /\ op' = "node_degree"
    /\ pre' = graph
    /\ UNCHANGED kind

Query(name, a, r) ==
    /\ op' = name
    /\ args' = a
    /\ Returned(r)
    /\ pre' = graph
    /\ UNCHANGED <<kind, graph>>

CallIsConnected == Query("is_connected", <<>>, Value(is_connected(graph)))

CallDepthFirstSearch ==
    \E start_node, end_node \in Nodes :
        Query("depth_first_search", <<start_node, end_node>>,
              depth_first_search(graph, start_node, end_node, <<>>))

CallDistance ==
    \E start_node, end_node \in Nodes :
        Query("distance", <<start_node, end_node>>,
              Value(distance(graph, start_node, end_node)))

CallDiameter == Query("diameter", <<>>, diameter(graph))

CallDelta ==
    /\ graph' = delta(graph).graph
    /\ Returned(delta(graph))
    /\ op' = "delta"
    /\ args' = <<>>
    /\ pre' = graph
    /\ UNCHANGED kind

CallBigDelta ==
    /\ graph' = Delta(graph).graph
    /\ Returned(Delta(graph))
    /\ op' = "Delta"
    /\ args' = <<>>
    /\ pre' = graph
    /\ UNCHANGED kind

Next ==
    \/ CallUndirectedAddEdge
    \/ CallDirectedAddEdge
    \/ CallAddNode
    \/ CallNodeDegree
    \/ CallIsConnected
    \/ CallDepthFirstSearch
    \/ CallDistance
    \/ CallDiameter
    \/ CallDelta
    \/ CallBigDelta

Spec == Init /\ [][Next]_vars

(***************************************************************************)
(* Vocabulary of the properties.                                           *)
(***************************************************************************)
(* the adjacency list of n, empty for a node that is no key *)
Adjacency(g, n) == IF Has(g, n) THEN Get(g, n) ELSE <<>>

KeySet(g) == {g[i].key : i \in DOMAIN g}

NoDuplicates(p) == \A i, j \in DOMAIN p : i # j => p[i] # p[j]

(* the sequences of distinct nodes, of length 1 and more *)
SimplePaths ==
    {p \in UNION {[1..n -> Nodes] : n \in 1..Cardinality(Nodes)} : NoDuplicates(p)}

(* x is the first entry of adj, in listed order, that is not in seen *)
IsFirstFresh(x, adj, seen) ==
    \E j \in DOMAIN adj :
        /\ adj[j] = x
        /\ ~InList(x, seen)
        /\ \A i \in 1..(j - 1) : InList(adj[i], seen)

(* p starts at s and always steps to the first entry not yet in the path *)
GreedyChain(g, p, s) ==
    /\ Len(p) >= 1
    /\ p[1] = s
    /\ \A i \in 2..Len(p) :
          IsFirstFresh(p[i], Adjacency(g, p[i - 1]), SubSeq(p, 1, i - 1))

(* the last node of p has no entry outside p *)
DeadEnd(g, p) ==
    \A j \in DOMAIN Adjacency(g, p[Len(p)]) : InList(Adjacency(g, p[Len(p)])[j], p)

(* the keys reachable from the set S along adjacency lists *)
RECURSIVE ReachableFrom(_, _)
ReachableFrom(g, S) ==
    LET T == S \cup {m \in Nodes : \E n \in S : InList(m, Adjacency(g, n))}
    IN  IF T = S THEN S ELSE ReachableFrom(g, T)

AllReachable(g) == \A u \in KeySet(g) : KeySet(g) \subseteq ReachableFrom(g, {u})

(* the orders the keys of g could have been inserted in *)
KeyOrders(g) ==
    {ks \in [1..Len(g) -> KeySet(g)] : NoDuplicates(ks)}

(***************************************************************************)
(* C1: in an UndirectedGraph, for distinct nodes A and B, A occurs in the  *)
(* adjacency list of B as often as B occurs in the adjacency list of A.    *)
(***************************************************************************)
C1_Symmetry ==
    kind = "undirected" =>
        \A A, B \in Nodes :
            A # B => Count(Adjacency(graph, B), A) = Count(Adjacency(graph, A), B)

C1_Witness ==
    /\ kind = "undirected"
    /\ op = "add_edge"
    /\ args[1] # args[2]
    /\ Count(Adjacency(pre, args[1]), args[2]) >= 1
    /\ Count(Adjacency(graph, args[1]), args[2]) >= 2

(***************************************************************************)
(* C2: in both kinds of graph, every node that occurs as an entry of some  *)
(* adjacency list is a key of the mapping: len() counts it and nodes       *)
(* lists it.                                                               *)
(***************************************************************************)
C2_EntriesAreKeys ==
    LET referenced == {m \in Nodes : \E i \in DOMAIN graph : InList(m, graph[i].val)}
    IN  /\ \A m \in referenced : Has(graph, m) /\ InList(m, nodes(graph))
        /\ len(graph) >= Cardinality(referenced)
        /\ NoDuplicates(nodes(graph))

C2_Witness ==
    /\ kind = "directed"
    /\ op = "add_edge"
    /\ ~Has(pre, args[2])
    /\ Has(graph, args[2])
    /\ Get(graph, args[2]) = <<>>

(***************************************************************************)
(* C3: in a DirectedGraph, add_edge((A, B)) with A # B appends one entry B *)
(* to the adjacency list of A, makes B a key (with an empty list if it was *)
(* absent) and changes no other adjacency list: A is not added to B's.     *)
(***************************************************************************)
C3_DirectedAddEdgeFrame ==
    (kind = "directed" /\ op = "add_edge" /\ args[1] # args[2]) =>
        LET A == args[1]
            B == args[2]
        IN  /\ Has(graph, A) /\ Has(graph, B)
            /\ Get(graph, A) = Append(Adjacency(pre, A), B)
            /\ Get(graph, B) = Adjacency(pre, B)
            /\ Count(Get(graph, B), A) = Count(Adjacency(pre, B), A)
            /\ KeySet(graph) = KeySet(pre) \cup {A, B}
            /\ \A n \in Nodes \ {A} : Adjacency(graph, n) = Adjacency(pre, n)
            /\ outcome = "None"

C3_Witness ==
    /\ kind = "directed"
    /\ op = "add_edge"
    /\ args[1] # args[2]
    /\ Has(pre, args[2])
    /\ ~InList(args[1], Get(graph, args[2]))
    /\ Len(Get(graph, args[1])) >= 2

(***************************************************************************)
(* C4: in an UndirectedGraph, add_edge((X, X)) raises node_degree(X) by 2  *)
(* and the length of the adjacency list of X by 1 (one entry X appended),  *)
(* whether or not X was a node, and changes no other adjacency list.       *)
(***************************************************************************)
C4_SelfLoop ==
    (kind = "undirected" /\ op = "add_edge" /\ args[1] = args[2]) =>
        LET X == args[1]
        IN  /\ node_degree(graph, X).ret = node_degree(pre, X).ret + 2
            /\ Has(graph, X)
            /\ Len(Get(graph, X)) = Len(Adjacency(pre, X)) + 1
            /\ Get(graph, X) = Append(Adjacency(pre, X), X)
            /\ KeySet(graph) = KeySet(pre) \cup {X}
            /\ \A n \in Nodes \ {X} : Adjacency(graph, n) = Adjacency(pre, n)

C4_Witness ==
    /\ kind = "undirected"
    /\ op = "add_edge"
    /\ args[1] = args[2]
    /\ Has(pre, args[1])
    /\ Len(Get(pre, args[1])) >= 1
    /\ node_degree(graph, args[1]).ret >= 3

C6_AbsentStartNoPath ==
    /\ (op = "depth_first_search" /\ ~Has(pre, args[1])) =>
          outcome = "None" /\ ~Has(graph, args[1])
    /\ (op = "distance" /\ ~Has(pre, args[1])) =>
          ret = -1 /\ ~Has(graph, args[1])

(***************************************************************************)
(* C7: is_connected() returns True exactly when every node of the graph    *)
(* can be reached from every node of the graph along adjacency lists.      *)
(***************************************************************************)
C7_ConnectedIffAllReachable ==
    op = "is_connected" => (ret <=> AllReachable(graph))

(***************************************************************************)
(* C8: on a graph with at least two nodes, diameter() is the maximum of    *)
(* distance(u, v) over the unordered pairs of distinct nodes: the result   *)
(* depends neither on the direction a pair is evaluated in nor on the      *)
(* insertion order of the keys.                                            *)
(***************************************************************************)
C8_DiameterOfUnorderedPairs ==
    (op = "diameter" /\ len(graph) >= 2) =>
        /\ outcome = "value"
        /\ ret = Max({distance(graph, c[1], c[2]) :
                        c \in {d \in KeySet(graph) \X KeySet(graph) : d[1] # d[2]}})
        /\ \A ks \in KeyOrders(graph) : DiameterOver(graph, ks).ret = ret

(***************************************************************************)
(* C9: delta() and Delta() on a graph with no nodes, and diameter() on a   *)
(* graph with fewer than two nodes, end in an error, return no value and   *)
(* leave the graph unchanged.                                              *)
(***************************************************************************)
C9_EmptyDomainRaises ==
    /\ (op \in {"delta", "Delta"} /\ len(pre) = 0) =>
          outcome = "ValueError" /\ graph = pre
    /\ (op = "diameter" /\ len(pre) < 2) =>
          outcome = "ValueError" /\ graph = pre

C9_Witness ==
    \/ op = "Delta" /\ len(pre) = 0 /\ outcome = "ValueError"
    \/ op = "diameter" /\ len(pre) = 1 /\ outcome = "ValueError"

(***************************************************************************)
(* C10: node_degree(N) on a node that is not in the graph returns 0 and    *)
(* registers N as a new, last key with an empty adjacency list, every      *)
(* existing entry unchanged; on a node in the graph it returns the length  *)
(* of its adjacency list plus its number of self-loop entries and changes  *)
(* nothing.                                                                *)
(***************************************************************************)
C10_NodeDegree ==
    op = "node_degree" =>
        LET N == args[1]
        IN  /\ outcome = "value"
            /\ ~Has(pre, N) =>
                  /\ ret = 0
                  /\ len(graph) = len(pre) + 1
                  /\ nodes(graph) = Append(nodes(pre), N)
                  /\ Get(graph, N) = <<>>
                  /\ \A i \in DOMAIN pre : graph[i] = pre[i]
            /\ Has(pre, N) =>
                  /\ ret = Len(Get(pre, N)) + Count(Get(pre, N), N)
                  /\ graph = pre

C10_Witness ==
    /\ op = "node_degree"
    /\ ~Has(pre, args[1])
    /\ len(pre) >= 1
    /\ Has(graph, args[1])

====
